---- MODULE Spec2Model ----
(***************************************************************************)
(* A model of the gonext command line tool: the `generate` commands of     *)
(* cmd/generate.go and the `new` command with its two rewrite helpers      *)
(* updateGoMod and updateImports.                                          *)
(*                                                                         *)
(* Text is modelled as a sequence of one-character strings, so that the    *)
(* string functions of the Go library (Split, Join, HasPrefix, TrimSpace,  *)
(* ReplaceAll, Title) are computed character by character.  The fixed      *)
(* literals of the fmt.Sprintf templates are kept as single tokens.        *)
(***************************************************************************)
EXTENDS Integers, Sequences, FiniteSets, TLC

VARIABLES
    fs,         \* generate: the files of the working directory, path -> content
    dirs,       \* generate: the directories of the working directory
    last,       \* generate: the command that ran last and what it reported
    count,      \* generate: number of commands run so far
    rin,        \* rewrite helpers: the arguments of the call
    rout,       \* rewrite helpers: the result of the call
    npc,        \* new: the position of the command
    projectName, \* new: the argument of the command
    staging,    \* new: the directory <projectName>-tmp, or NoEntry
    target,     \* new: the entry <projectName>, or NoEntry
    modulePath, \* new: the module path read at the prompt
    nout,       \* new: the lines printed so far
    tmpl        \* new: the template as the clone delivered it

vars == <<fs, dirs, last, count, rin, rout,
          npc, projectName, staging, target, modulePath, nout, tmpl>>

genVars == <<fs, dirs, last, count>>
rwVars == <<rin, rout>>
newVars == <<npc, projectName, staging, target, modulePath, nout, tmpl>>

-----------------------------------------------------------------------------
(* Bounds *)

MaxCmds == 2
MaxWords == 2

-----------------------------------------------------------------------------
(* The Go string functions the commands use *)

LowerLetters == <<"a","b","c","d","e","f","g","h","i","j","k","l","m",
                  "n","o","p","q","r","s","t","u","v","w","x","y","z">>
UpperLetters == <<"A","B","C","D","E","F","G","H","I","J","K","L","M",
                  "N","O","P","Q","R","S","T","U","V","W","X","Y","Z">>
Digits == {"0","1","2","3","4","5","6","7","8","9"}

IsLetter(c) == \E i \in 1..26 : LowerLetters[i] = c \/ UpperLetters[i] = c

ToUpper(c) ==
    IF \E i \in 1..26 : LowerLetters[i] = c
    THEN UpperLetters[CHOOSE i \in 1..26 : LowerLetters[i] = c]
    ELSE c

\* strings.isSeparator: letters, digits and underscore are not separators
isSeparator(c) == ~(IsLetter(c) \/ c \in Digits \/ c = "_")

RECURSIVE TitleFrom(_, _)
TitleFrom(s, prev) ==
    IF s = <<>> THEN <<>>
    ELSE <<IF isSeparator(prev) THEN ToUpper(Head(s)) ELSE Head(s)>>
         \o TitleFrom(Tail(s), Head(s))

TitleIdentity(s) == s

\* strings.Title: the first letter of every word is upper-cased
Title(s) == TitleFrom(s, " ")

HasPrefix(s, p) == Len(s) >= Len(p) /\ SubSeq(s, 1, Len(p)) = p
HasSuffix(s, p) == Len(s) >= Len(p) /\ SubSeq(s, Len(s) - Len(p) + 1, Len(s)) = p

TrimPrefix(s, p) == IF HasPrefix(s, p) THEN SubSeq(s, Len(p) + 1, Len(s)) ELSE s

WhiteSpace == {" ", "\n", "\t", "\r"}

RECURSIVE TrimLeft(_)
TrimLeft(s) ==
    IF s # <<>> /\ Head(s) \in WhiteSpace THEN TrimLeft(Tail(s)) ELSE s

RECURSIVE TrimRight(_)
TrimRight(s) ==
    IF s # <<>> /\ s[Len(s)] \in WhiteSpace
    THEN TrimRight(SubSeq(s, 1, Len(s) - 1)) ELSE s

TrimSpace(s) == TrimRight(TrimLeft(s))

\* strings.Split(s, sep): always at least one piece, a trailing sep gives an
\* empty last piece
RECURSIVE SplitFrom(_, _, _)
SplitFrom(s, sep, cur) ==
    IF s = <<>> THEN <<cur>>
    ELSE IF HasPrefix(s, sep)
         THEN <<cur>> \o SplitFrom(SubSeq(s, Len(sep) + 1, Len(s)), sep, <<>>)
         ELSE SplitFrom(Tail(s), sep, Append(cur, Head(s)))

Split(s, sep) == SplitFrom(s, sep, <<>>)

RECURSIVE Join(_, _)
Join(lines, sep) ==
    IF lines = <<>> THEN <<>>
    ELSE IF Len(lines) = 1 THEN lines[1]
         ELSE lines[1] \o sep \o Join(Tail(lines), sep)

\* strings.ReplaceAll(s, old, new) for a non-empty old: non-overlapping
\* matches, left to right
RECURSIVE ReplaceAll(_, _, _)
ReplaceAll(s, old, new) ==
    IF s = <<>> THEN <<>>
    ELSE IF HasPrefix(s, old)
         THEN new \o ReplaceAll(SubSeq(s, Len(old) + 1, Len(s)), old, new)
         ELSE <<Head(s)>> \o ReplaceAll(Tail(s), old, new)

NL == <<"\n">>
Slash == <<"/">>
Quote == <<"\"">>
ModuleKw == <<"m","o","d","u","l","e"," ">>

-----------------------------------------------------------------------------
(* The generate commands (cmd/generate.go) *)

\* the raw names and owning modules given on the command line
user == <<"u","s","e","r">>
UserCap == <<"U","s","e","r">>
userProfile == <<"u","-","p">>
Names == {user, UserCap, userProfile}
InModules == {user, <<"s","h","o","p">>}

\* what os.ReadFile("go.mod") gives a command: an error, or the file's text
ReadErr == <<"<read error>">>
ManifestReads ==
    { ReadErr,
      ModuleKw \o <<" ","b","/","c"," ">> \o NL \o <<"g","o">>,
      <<"g","o">> \o NL \o ModuleKw \o <<"a">> }

fallbackModule == <<"m","y","p","r","o","j","e","c","t">>

\* the same, without strings.TrimSpace
getModuleNameUntrimmed(data) ==
    IF data = ReadErr THEN fallbackModule
    ELSE LET lines == Split(data, NL)
         IN  IF Len(lines) > 0 /\ HasPrefix(lines[1], ModuleKw)
             THEN TrimPrefix(lines[1], ModuleKw)
             ELSE fallbackModule

getModuleName(data) ==
    IF data = ReadErr THEN fallbackModule
    ELSE LET lines == Split(data, NL)
         IN  IF Len(lines) > 0 /\ HasPrefix(lines[1], ModuleKw)
             THEN TrimSpace(TrimPrefix(lines[1], ModuleKw))
             ELSE fallbackModule

subdirs == <<"controller", "repository", "route", "service">>

\* os.MkdirAll(filepath.Join("internal", moduleName, sub)) for every sub
moduleDirs(moduleName) ==
    { <<"internal">>, <<"internal", moduleName>> }
    \cup { <<"internal", moduleName, subdirs[i]>> : i \in DOMAIN subdirs }

\* os.Stat(path) returns no error
StatNever(files, path) == FALSE
StatOk(files, path) == path \in DOMAIN files

\* os.WriteFile(path, content, 0644): creates the file or replaces its content
WriteFile(files, path, content) ==
    [p \in DOMAIN files \cup {path} |-> IF p = path THEN content ELSE files[p]]

controllerPath(module, name) == <<"internal", module, "controller", name, "Controller.go">>
servicePath(module, name) == <<"internal", module, "service", name, "Service.go">>
repositoryPath(module, name) == <<"internal", module, "repository", name, "Repository.go">>
routePath(module, name) == <<"internal", module, "route", name, "Route.go">>
moduleGo(module) == <<"internal", module, "module.go">>

\* the rendered templates: package, module-prefixed imports, declared type,
\* referenced types and (module.go) the route group
controllerContent(moduleName, module, titleName) ==
    [ pkg |-> <<"controller">>,
      imports |-> { <<moduleName, "internal", module, "service">> },
      typeName |-> titleName \o <<"Controller">>,
      uses |-> { titleName \o <<"Service">> },
      route |-> <<>> ]

serviceContent(moduleName, module, titleName) ==
    [ pkg |-> <<"service">>,
      imports |-> { <<moduleName, "internal", module, "repository">> },
      typeName |-> titleName \o <<"Service">>,
      uses |-> { titleName \o <<"Repository">> },
      route |-> <<>> ]

repositoryContent(titleName) ==
    [ pkg |-> <<"repository">>,
      imports |-> {},
      typeName |-> titleName \o <<"Repository">>,
      uses |-> {},
      route |-> <<>> ]

routeContentOtherModule(moduleName, name, titleName) ==
    [ pkg |-> <<"route">>,
      imports |-> { <<fallbackModule, "internal", name, "controller">> },
      typeName |-> <<"Register">> \o titleName \o <<"Routes">>,
      uses |-> { titleName \o <<"Controller">> },
      route |-> <<>> ]

routeContent(moduleName, name, titleName) ==
    [ pkg |-> <<"route">>,
      imports |-> { <<moduleName, "internal", name, "controller">> },
      typeName |-> <<"Register">> \o titleName \o <<"Routes">>,
      uses |-> { titleName \o <<"Controller">> },
      route |-> <<>> ]

moduleGoContent(moduleName, name, titleName) ==
    [ pkg |-> name,
      imports |-> { <<moduleName, "app">> }
                  \cup { <<moduleName, "internal", name, subdirs[i]>> : i \in DOMAIN subdirs },
      typeName |-> titleName \o <<"Module">>,
      uses |-> { titleName \o <<"Controller">>, titleName \o <<"Repository">>,
                 titleName \o <<"Service">>,
                 <<"Register">> \o titleName \o <<"Routes">> },
      route |-> <<"/">> \o name \o <<"s">> ]

NoEntry == [kind |-> "none"]

\* the variables of a command that is not run
NewIdle ==
    /\ npc = "idle"
    /\ projectName = <<>>
    /\ staging = NoEntry
    /\ target = NoEntry
    /\ modulePath = <<>>
    /\ nout = <<>>
    /\ tmpl = NoEntry

\* the commands attached to `generate` and to `g` in init()
Parents == {"generate", "g"}
Registered == Parents \X {"module", "controller", "service", "repository"}

\* both parents hold the same command object, so the alias used makes no
\* difference to what a registered command does
Runnable(kind) == \A parent \in Parents : <<parent, kind>> \in Registered

NoCmd == [ cmd |-> "none", name |-> <<>>, module |-> <<>>,
           modid |-> <<>>, out |-> "", writes |-> 0, fresh |-> FALSE ]

Report(cmd, name, module, modid, out, writes) ==
    [ cmd |-> cmd, name |-> name, module |-> module,
      modid |-> modid, out |-> out, writes |-> writes,
      fresh |-> /\ <<"internal", module>> \notin dirs
                /\ \A p \in DOMAIN fs : p[2] # module ]

\* the faults the file system can give a single-component command
SingleFaults == {"none", "mkdir", "write"}

\* the same, with os.MkdirAll failing on a directory that is already there
MkdirFailsOnExisting(module) == TRUE

\* os.MkdirAll returns nil for a directory that is already there, so it can
\* fail only when a directory of the module is still to be made
MkdirCanFail(module) == ~(moduleDirs(module) \subseteq dirs)

\* one single-component command: ensureModuleDirs, the existence check, the write
SingleCmd(kind, name, module, modid, path, content, fault) ==
    /\ count < MaxCmds
    /\ Runnable(kind)
    /\ fault = "mkdir" => MkdirCanFail(module)
    /\ count' = count + 1
    /\ IF fault = "mkdir"
       THEN /\ UNCHANGED <<fs, dirs>>
            /\ last' = Report(kind, name, module, modid, "mkdir failed", 0)
       ELSE /\ dirs' = dirs \cup moduleDirs(module)
            /\ IF StatOk(fs, path)
               THEN /\ UNCHANGED fs
                    /\ last' = Report(kind, name, module, modid, "already exists", 0)
               ELSE IF fault = "write"
                    THEN /\ UNCHANGED fs
                         /\ last' = Report(kind, name, module, modid, "write failed", 0)
                    ELSE /\ fs' = WriteFile(fs, path, content)
                         /\ last' = Report(kind, name, module, modid, "created", 1)
    /\ UNCHANGED <<rwVars, newVars>>

controllerCmd(name, module, data, fault) ==
    LET titleName == Title(name)
        moduleName == getModuleName(data)
    IN  SingleCmd("controller", name, module, moduleName,
                  controllerPath(module, name),
                  controllerContent(moduleName, module, titleName), fault)

serviceCmd(name, module, data, fault) ==
    LET titleName == Title(name)
        moduleName == getModuleName(data)
    IN  SingleCmd("service", name, module, moduleName,
                  servicePath(module, name),
                  serviceContent(moduleName, module, titleName), fault)

repositoryCmd(name, module, fault) ==
    LET titleName == Title(name)
    IN  SingleCmd("repository", name, module, <<>>,
                  repositoryPath(module, name),
                  repositoryContent(titleName), fault)

\* the five writes of moduleCmd, in the order of the code
moduleWrites(moduleName, name, titleName) ==
    << <<moduleGo(name), moduleGoContent(moduleName, name, titleName)>>,
       <<controllerPath(name, name), controllerContent(moduleName, name, titleName)>>,
       <<servicePath(name, name), serviceContent(moduleName, name, titleName)>>,
       <<repositoryPath(name, name), repositoryContent(titleName)>>,
       <<routePath(name, name), routeContent(moduleName, name, titleName)>> >>

RECURSIVE WriteAll(_, _, _)
WriteAll(files, writes, n) ==
    IF n = 0 THEN files
    ELSE WriteFile(WriteAll(files, writes, n - 1), writes[n][1], writes[n][2])

\* the writes that have been made when the k-th one fails and the command
\* returns
writtenBeforeRolledBack(failAt) == 0
writtenBefore(failAt) == failAt - 1

\* failAt = -1: a directory cannot be created; failAt = 0: nothing fails;
\* failAt = k: the k-th os.WriteFile fails
ModuleFaults == -1..5

moduleCmd(name, data, failAt) ==
    LET titleName == Title(name)
        moduleName == getModuleName(data)
        writes == moduleWrites(moduleName, name, titleName)
    IN  /\ count < MaxCmds
        /\ Runnable("module")
        /\ failAt = -1 => MkdirCanFail(name)
        /\ count' = count + 1
        /\ IF failAt = -1
           THEN /\ UNCHANGED <<fs, dirs>>
                /\ last' = Report("module", name, name, moduleName, "mkdir failed", 0)
           ELSE /\ dirs' = dirs \cup moduleDirs(name)
                /\ IF failAt = 0
                   THEN /\ fs' = WriteAll(fs, writes, Len(writes))
                        /\ last' = Report("module", name, name, moduleName,
                                          "created", Len(writes))
                   ELSE /\ fs' = WriteAll(fs, writes, writtenBefore(failAt))
                        /\ last' = Report("module", name, name, moduleName,
                                          "write failed", failAt - 1)
        /\ UNCHANGED <<rwVars, newVars>>

\* a subcommand that init() attached to neither `generate` nor `g`: the parent
\* has no Run of its own, so the help text is printed and nothing else happens
unknownSubcommand(parent, kind, name, module) ==
    /\ count < MaxCmds
    /\ <<parent, kind>> \notin Registered
    /\ count' = count + 1
    /\ last' = Report(kind, name, module, <<>>, "help", 0)
    /\ UNCHANGED <<fs, dirs>>
    /\ UNCHANGED <<rwVars, newVars>>

GenIdle ==
    /\ fs = <<>>
    /\ dirs = {}
    /\ last = NoCmd
    /\ count = 0

GenInit ==
    /\ fs = <<>>
    /\ dirs = {}
    /\ last = NoCmd
    /\ count = 0
    /\ rin = <<>>
    /\ rout = <<>>
    /\ NewIdle

GenNext ==
    \/ \E name \in Names, module \in InModules, data \in ManifestReads,
          fault \in SingleFaults :
          controllerCmd(name, module, data, fault)
    \/ \E name \in Names, module \in InModules, data \in ManifestReads,
          fault \in SingleFaults :
          serviceCmd(name, module, data, fault)
    \/ \E name \in Names, module \in InModules, fault \in SingleFaults :
          repositoryCmd(name, module, fault)
    \/ \E name \in Names, data \in ManifestReads, failAt \in ModuleFaults :
          moduleCmd(name, data, failAt)
    \/ \E parent \in Parents, kind \in {"dto", "middleware"},
          name \in Names, module \in InModules :
          unknownSubcommand(parent, kind, name, module)

GenSpec == GenInit /\ [][GenNext]_vars

-----------------------------------------------------------------------------
(* The commands that read the manifest, run in one working directory whose   *)
(* go.mod stays as it is: rin holds what os.ReadFile("go.mod") gives         *)

ManifestTexts ==
    ManifestReads
    \cup { <<>>,
           <<"m","o","d","u","l","e">> \o NL \o <<"g","o">>,
           ModuleKw \o <<"a","/","b">>,
           ModuleKw \o <<"\t","a"," ","b","\r">> \o NL }

ManInit ==
    /\ GenIdle
    /\ \E data \in ManifestTexts : rin = [op |-> "generate", gomod |-> data]
    /\ rout = <<>>
    /\ NewIdle

ManNext ==
    \/ \E name \in Names, module \in InModules, fault \in SingleFaults :
          controllerCmd(name, module, rin.gomod, fault)
    \/ \E name \in Names, module \in InModules, fault \in SingleFaults :
          serviceCmd(name, module, rin.gomod, fault)
    \/ \E name \in Names, failAt \in ModuleFaults :
          moduleCmd(name, rin.gomod, failAt)

ManSpec == ManInit /\ [][ManNext]_vars

-----------------------------------------------------------------------------
(* The rewrite helpers of the `new` command *)

oldModuleName == <<"g","o","N","e","x","t">>

NoFile == <<"<no file>">>

\* updateGoMod: [err, gomod] for the manifest text found (or NoFile) and the
\* outcome of the final ioutil.WriteFile
updateGoModEveryLine(gomod, newModule, writeFails) ==
    IF gomod = NoFile THEN [err |-> TRUE, gomod |-> gomod]
    ELSE LET lines == Split(gomod, NL)
             output == Join([i \in DOMAIN lines |->
                               IF HasPrefix(lines[i], ModuleKw)
                               THEN ModuleKw \o newModule ELSE lines[i]], NL)
         IN  IF writeFails THEN [err |-> TRUE, gomod |-> gomod]
             ELSE [err |-> FALSE, gomod |-> output]

\* the same, with the first line replaced by the identifier alone
updateGoModNoKeyword(gomod, newModule, writeFails) ==
    IF gomod = NoFile THEN [err |-> TRUE, gomod |-> gomod]
    ELSE LET lines == Split(gomod, NL)
             lines1 == IF Len(lines) > 0 /\ HasPrefix(lines[1], ModuleKw)
                       THEN [lines EXCEPT ![1] = newModule]
                       ELSE lines
             output == Join(lines1, NL)
         IN  IF writeFails THEN [err |-> TRUE, gomod |-> gomod]
             ELSE [err |-> FALSE, gomod |-> output]

updateGoMod(gomod, newModule, writeFails) ==
    IF gomod = NoFile THEN [err |-> TRUE, gomod |-> gomod]
    ELSE LET lines == Split(gomod, NL)
             lines1 == IF Len(lines) > 0 /\ HasPrefix(lines[1], ModuleKw)
                       THEN [lines EXCEPT ![1] = ModuleKw \o newModule]
                       ELSE lines
             output == Join(lines1, NL)
         IN  IF writeFails THEN [err |-> TRUE, gomod |-> gomod]
             ELSE [err |-> FALSE, gomod |-> output]

\* the two replacements updateImports applies to the text of one .go file
rewriteContentNoSlash(input, oldModule, newModule) ==
    ReplaceAll(input, oldModule, newModule)

rewriteContent(input, oldModule, newModule) ==
    LET content == ReplaceAll(input, oldModule \o Slash, newModule \o Slash)
    IN  ReplaceAll(content, Quote \o oldModule \o Slash, Quote \o newModule \o Slash)

-----------------------------------------------------------------------------
(* The rewrite helpers called on their own, over bounded arguments *)

pkg == <<"p","k","g">>

Olds == { oldModuleName, <<"o","m">> }
News(old) == { <<"n","m">>, old \o <<"/","v","2">>, <<"x">> \o old, <<"n"," ","m">> }

\* references as they occur in source text, one per line
Ref(id) == id \o Slash \o pkg
Quoted(w) == Quote \o w \o Quote
Prefixes == { <<>>, <<"x">>, <<"a","/">>, <<"a","/","m","y">> }
Middles == { <<>>, <<"x">> }
Words(old) ==
    { pre \o old \o mid \o Slash \o pkg : pre \in Prefixes, mid \in Middles }
    \cup { Quoted(old \o mid \o Slash \o pkg) : mid \in Middles }
    \cup { pkg, old }

SeqsUpTo(S, n) == UNION { [1..k -> S] : k \in 1..n }

\* manifests: the declaration line first, with and without a final newline,
\* with further lines, and manifests whose first line is no declaration
Tails == { <<>>, NL, NL \o <<"g","o">>, NL \o NL \o <<"g","o">> \o NL,
           NL \o ModuleKw \o <<"q">> \o NL }
Manifests(old) ==
    { ModuleKw \o old \o tail : tail \in Tails }
    \cup { <<"g","o">> \o NL \o ModuleKw \o old, NoFile }

RwInit ==
    /\ \E old \in Olds : \E new \in News(old) :
         \/ \E ws \in SeqsUpTo(Words(old), MaxWords) :
              rin = [op |-> "updateImports", old |-> old, new |-> new,
                     words |-> ws, gomod |-> <<>>]
         \/ \E m \in Manifests(old) :
              rin = [op |-> "updateGoMod", old |-> old, new |-> new,
                     words |-> <<>>, gomod |-> m]
    /\ rout = <<>>
    /\ GenIdle
    /\ NewIdle

CallUpdateImports ==
    /\ rin.op = "updateImports"
    /\ rout = <<>>
    /\ rout' = [err |-> FALSE,
                text |-> rewriteContent(Join(rin.words, NL), rin.old, rin.new)]
    /\ UNCHANGED <<rin, genVars, newVars>>

CallUpdateGoMod ==
    /\ rin.op = "updateGoMod"
    /\ rout = <<>>
    /\ \E writeFails \in BOOLEAN :
         LET r == updateGoMod(rin.gomod, rin.new, writeFails)
         IN  rout' = [err |-> r.err, text |-> r.gomod]
    /\ UNCHANGED <<rin, genVars, newVars>>

RwNext == CallUpdateImports \/ CallUpdateGoMod

RwSpec == RwInit /\ [][RwNext]_vars

-----------------------------------------------------------------------------
(* The `new` command *)

starter == <<"s","t","a","r","t","e","r">>
app == <<"a","p","p">>
myproj == <<"m","y","p","r","o","j">>
ProjectNames == { myproj }

GoSuffix == <<".","g","o">>
mainGo == <<"m","a","i","n",".","g","o">>
readme == <<"R","E","A","D","M","E",".","m","d">>
internalDir == <<"i","n","t","e","r","n","a","l">>
internalAGo == internalDir \o Slash \o <<"a",".","g","o">>

File(name, text) == [name |-> name, isDir |-> FALSE, text |-> text]
Dir(name) == [name |-> name, isDir |-> TRUE, text |-> <<>>]

\* the trees a clone can deliver: the manifest declares `module <id>` or is
\* missing, the entries are in the lexical order in which filepath.Walk
\* visits them
TemplateIds == { oldModuleName, starter }
TemplateManifest(id) == ModuleKw \o id \o NL \o NL \o <<"g","o">> \o NL
TemplateShapes(id) ==
    << << File(mainGo, <<"i"," ">> \o Quoted(id \o Slash \o app) \o NL) >>,
       << File(readme, id \o Slash \o app),
          Dir(internalDir),
          File(internalAGo, Quoted(id \o Slash \o app) \o NL \o Quoted(id \o Slash \o pkg)),
          File(mainGo, <<"i"," ">> \o Quoted(id \o Slash \o app) \o NL) >> >>
TemplateEntries(id) == { TemplateShapes(id)[k] : k \in DOMAIN TemplateShapes(id) }
Templates ==
    { [kind |-> "tree", git |-> TRUE, gomod |-> m, files |-> es] :
        m \in { TemplateManifest(id) : id \in TemplateIds } \cup { NoFile },
        es \in UNION { TemplateEntries(id) : id \in TemplateIds } }

\* what already is at <projectName> when the command starts
ExistingFile == [kind |-> "file"]
ExistingDir == [kind |-> "directory with entries"]
EmptyDir == [kind |-> "empty directory"]
Existing == { NoEntry, ExistingFile, ExistingDir, EmptyDir }

\* the lines typed at the prompt
PromptLines ==
    { NL,
      <<" ","g","h","/","m","p"," ">> \o NL,
      oldModuleName \o <<"/","v","2">> \o NL }

\* the faults of a walk: none, or the read or the write of the i-th entry
WalkFaults(files) ==
    { <<"none", 0>> } \cup ({"read", "write"} \X DOMAIN files)

\* the walk without the test of the suffix: every regular file is rewritten
RECURSIVE walkFromEveryFile(_, _, _, _, _)
walkFromEveryFile(files, i, oldModule, newModule, fault) ==
    IF i > Len(files) THEN [err |-> FALSE, files |-> files]
    ELSE LET e == files[i]
             content == rewriteContent(e.text, oldModule, newModule)
         IN  IF e.isDir
             THEN walkFromEveryFile(files, i + 1, oldModule, newModule, fault)
             ELSE IF fault = <<"read", i>>
             THEN [err |-> TRUE, files |-> files]
             ELSE IF content # e.text
             THEN IF fault = <<"write", i>>
                  THEN [err |-> TRUE, files |-> files]
                  ELSE walkFromEveryFile([files EXCEPT ![i].text = content], i + 1,
                                         oldModule, newModule, fault)
             ELSE walkFromEveryFile(files, i + 1, oldModule, newModule, fault)

\* updateImports: filepath.Walk over the entries; the first error returned by
\* the callback ends the walk
RECURSIVE walkFrom(_, _, _, _, _)
walkFrom(files, i, oldModule, newModule, fault) ==
    IF i > Len(files) THEN [err |-> FALSE, files |-> files]
    ELSE LET e == files[i]
             content == rewriteContent(e.text, oldModule, newModule)
         IN  IF e.isDir \/ ~HasSuffix(e.name, GoSuffix)
             THEN walkFrom(files, i + 1, oldModule, newModule, fault)
             ELSE IF fault = <<"read", i>>
             THEN [err |-> TRUE, files |-> files]
             ELSE IF content # e.text
             THEN IF fault = <<"write", i>>
                  THEN [err |-> TRUE, files |-> files]
                  ELSE walkFrom([files EXCEPT ![i].text = content], i + 1,
                                oldModule, newModule, fault)
             ELSE walkFrom(files, i + 1, oldModule, newModule, fault)

updateImports(files, oldModule, newModule, fault) ==
    walkFrom(files, 1, oldModule, newModule, fault)

Say(line) == nout' = Append(nout, line)

\* the same, without the return after the error
LookPathGoesOn ==
    /\ npc = "lookpath"
    /\ \E installed \in BOOLEAN :
         IF installed
         THEN npc' = "clone" /\ UNCHANGED nout
         ELSE npc' = "clone" /\ Say("Error: 'git' is required")
    /\ UNCHANGED <<projectName, staging, target, modulePath, tmpl>>
    /\ UNCHANGED <<genVars, rwVars>>

\* exec.LookPath("git")
LookPath ==
    /\ npc = "lookpath"
    /\ \E installed \in BOOLEAN :
         IF installed
         THEN npc' = "clone" /\ UNCHANGED nout
         ELSE npc' = "done" /\ Say("Error: 'git' is required")
    /\ UNCHANGED <<projectName, staging, target, modulePath, tmpl>>
    /\ UNCHANGED <<genVars, rwVars>>

\* git clone starterRepo tempDir
Clone ==
    /\ npc = "clone"
    /\ \/ /\ npc' = "done"
          /\ Say("Error cloning repository")
          /\ UNCHANGED <<staging, tmpl>>
       \/ \E t \in Templates :
            /\ staging' = t
            /\ tmpl' = t
            /\ npc' = "strip"
            /\ UNCHANGED nout
    /\ UNCHANGED <<projectName, target, modulePath>>
    /\ UNCHANGED <<genVars, rwVars>>

\* the same, with the failure ending the command
StripFatal ==
    /\ npc = "strip"
    /\ \E removed \in BOOLEAN :
         IF removed
         THEN /\ staging' = [staging EXCEPT !.git = FALSE]
              /\ npc' = "rename"
              /\ UNCHANGED nout
         ELSE /\ UNCHANGED staging
              /\ npc' = "done"
              /\ Say("Warning: could not remove .git")
    /\ UNCHANGED <<projectName, target, modulePath, tmpl>>
    /\ UNCHANGED <<genVars, rwVars>>

\* the same, with the manifest rewritten to the project name while the clone
\* is still under the staging name
StripAndRewrite ==
    /\ npc = "strip"
    /\ \E removed \in BOOLEAN :
         IF removed
         THEN staging' = [staging EXCEPT !.git = FALSE,
                            !.gomod = updateGoMod(staging.gomod, projectName, FALSE).gomod]
              /\ UNCHANGED nout
         ELSE UNCHANGED staging /\ Say("Warning: could not remove .git")
    /\ npc' = "rename"
    /\ UNCHANGED <<projectName, target, modulePath, tmpl>>
    /\ UNCHANGED <<genVars, rwVars>>

\* os.RemoveAll(tempDir/.git): a failure is a warning
Strip ==
    /\ npc = "strip"
    /\ \E removed \in BOOLEAN :
         IF removed
         THEN staging' = [staging EXCEPT !.git = FALSE] /\ UNCHANGED nout
         ELSE UNCHANGED staging /\ Say("Warning: could not remove .git")
    /\ npc' = "rename"
    /\ UNCHANGED <<projectName, target, modulePath, tmpl>>
    /\ UNCHANGED <<genVars, rwVars>>

\* the same, with rename(2) replacing an empty directory
RenameReplacesEmptyDir ==
    /\ npc = "rename"
    /\ \E syscallFails \in BOOLEAN :
         IF syscallFails \/ target \in {ExistingFile, ExistingDir}
         THEN /\ npc' = "done"
              /\ Say("Error renaming project directory")
              /\ UNCHANGED <<staging, target>>
         ELSE /\ npc' = "prompt"
              /\ target' = staging
              /\ staging' = NoEntry
              /\ UNCHANGED nout
    /\ UNCHANGED <<projectName, modulePath, tmpl>>
    /\ UNCHANGED <<genVars, rwVars>>

\* os.Rename(tempDir, projectName): the source is a directory, so it fails on
\* every existing entry (a directory: EEXIST, a file: ENOTDIR), or when the
\* system call fails
Rename ==
    /\ npc = "rename"
    /\ \E syscallFails \in BOOLEAN :
         IF syscallFails \/ target # NoEntry
         THEN /\ npc' = "done"
              /\ Say("Error renaming project directory")
              /\ UNCHANGED <<staging, target>>
         ELSE /\ npc' = "prompt"
              /\ target' = staging
              /\ staging' = NoEntry
              /\ UNCHANGED nout
    /\ UNCHANGED <<projectName, modulePath, tmpl>>
    /\ UNCHANGED <<genVars, rwVars>>

\* the prompt: the line read, trimmed; the project name when it is empty
Prompt ==
    /\ npc = "prompt"
    /\ \E line \in PromptLines :
         LET typed == TrimSpace(line)
         IN  modulePath' = IF typed = <<>> THEN projectName ELSE typed
    /\ npc' = "gomod"
    /\ UNCHANGED <<projectName, staging, target, nout, tmpl>>
    /\ UNCHANGED <<genVars, rwVars>>

\* updateGoMod(projectName/go.mod, modulePath); an error is printed and the
\* command goes on
GoModStep ==
    /\ npc = "gomod"
    /\ \E writeFails \in BOOLEAN :
         LET r == updateGoMod(target.gomod, modulePath, writeFails)
         IN  /\ target' = [target EXCEPT !.gomod = r.gomod]
             /\ IF r.err THEN Say("Error updating go.mod") ELSE UNCHANGED nout
    /\ npc' = "imports"
    /\ UNCHANGED <<projectName, staging, modulePath, tmpl>>
    /\ UNCHANGED <<genVars, rwVars>>

\* updateImports(projectName, oldModuleName, modulePath); an error is printed,
\* and the two closing lines are printed in every case
ImportsStep ==
    /\ npc = "imports"
    /\ \E fault \in WalkFaults(target.files) :
         LET r == updateImports(target.files, oldModuleName, modulePath, fault)
         IN  /\ target' = [target EXCEPT !.files = r.files]
             /\ nout' = nout
                        \o (IF r.err THEN <<"Error updating import paths">> ELSE <<>>)
                        \o <<"New GoNext project created", "Don't forget to run 'go mod tidy'">>
    /\ npc' = "done"
    /\ UNCHANGED <<projectName, staging, modulePath, tmpl>>
    /\ UNCHANGED <<genVars, rwVars>>

NewInit ==
    /\ npc = "lookpath"
    /\ projectName \in ProjectNames
    /\ staging = NoEntry
    /\ target \in Existing
    /\ modulePath = <<>>
    /\ nout = <<>>
    /\ tmpl = NoEntry
    /\ GenIdle
    /\ rin = <<>>
    /\ rout = <<>>

NewNext ==
    \/ LookPath
    \/ Clone
    \/ Strip
    \/ Rename
    \/ Prompt
    \/ GoModStep
    \/ ImportsStep

NewSpec == NewInit /\ [][NewNext]_vars

-----------------------------------------------------------------------------
(* Properties of the generate commands *)

SingleKinds == {"controller", "service", "repository"}
DocumentedSingleKinds == SingleKinds \cup {"dto", "middleware"}

\* the destination of the single-component command recorded in a report
Destination(r) ==
    CASE r.cmd = "controller" -> controllerPath(r.module, r.name)
      [] r.cmd = "service" -> servicePath(r.module, r.name)
      [] r.cmd = "repository" -> repositoryPath(r.module, r.name)

\* the files and directories below internal/<module>
FilesOf(module) == { p \in DOMAIN fs : p[2] = module }
DirsBelow(module) == { d \in dirs : Len(d) > 2 /\ d[2] = module }

\* C1: no generate command of any kind ever replaces a file that existed
\* before it ran: every existing file keeps exactly the content it had.
C1_NeverReplacesExistingFile ==
    [][\A p \in DOMAIN fs : p \in DOMAIN fs' /\ fs'[p] = fs[p]]_vars

\* C2: when a single-component command has just created its file and the same
\* command runs again with the same name and owning module, whatever the
\* manifest reads now, the second run reports that the file already exists,
\* writes nothing, and the one file at the destination still holds the
\* content of the first run (its imports carry the first run's identifier).
C2_SecondRunKeepsFirstContent ==
    [][ ( /\ last.cmd \in SingleKinds
          /\ last.out = "created"
          /\ count' = count + 1
          /\ last'.cmd = last.cmd
          /\ last'.name = last.name
          /\ last'.module = last.module )
        => ( /\ last'.out = "already exists"
             /\ last'.writes = 0
             /\ fs' = fs
             /\ Destination(last) \in DOMAIN fs'
             /\ \A imp \in fs'[Destination(last)].imports : imp[1] = last.modid ) ]_vars

\* a second run of `controller <name> shop` found the file of the first run,
\* written under another module identifier than the manifest gives now
C2_Witness ==
    /\ last.cmd = "controller"
    /\ last.module = <<"s","h","o","p">>
    /\ last.out = "already exists"
    /\ last.writes = 0
    /\ \E imp \in fs[Destination(last)].imports : imp[1] # last.modid

\* C7: `generate module <name>` on a module of which nothing existed creates
\* exactly the four directories controller, repository, route, service and
\* exactly the five files, and every module-prefixed import of the five files
\* starts with the one identifier the command read from the manifest.
C7_FreshModuleScaffold ==
    ( last.cmd = "module" /\ last.out = "created" /\ last.fresh )
    => LET name == last.name
       IN  /\ DirsBelow(name) =
                { <<"internal", name, sub>> :
                    sub \in {"controller", "repository", "route", "service"} }
           /\ FilesOf(name) =
                { moduleGo(name), controllerPath(name, name), servicePath(name, name),
                  repositoryPath(name, name), routePath(name, name) }
           /\ Cardinality(FilesOf(name)) = 5
           /\ last.writes = 5
           /\ \A p \in FilesOf(name) : \A imp \in fs[p].imports : imp[1] = last.modid

C7_Witness ==
    /\ last.cmd = "module"
    /\ last.out = "created"
    /\ last.fresh
    /\ last.modid # fallbackModule
    /\ Cardinality(FilesOf(last.name)) = 5

\* the raw name a generated file was made from, and the type-name form that
\* its content carries
RawNameOf(p) == IF Len(p) = 3 THEN p[2] ELSE p[4]
TitleOf(c) ==
    IF c.pkg = <<"route">> THEN SubSeq(c.typeName, 2, Len(c.typeName) - 1)
    ELSE SubSeq(c.typeName, 1, Len(c.typeName) - 1)

\* C8: every file generated from the raw name "user" carries the type-name
\* form "User" and the path segment "user", the module file's route group is
\* "/users"; and any two files generated from one raw name, by whatever
\* commands and in whatever state of the disk, carry the same type-name form.
C8_NameDerivation ==
    /\ \A p \in DOMAIN fs :
         RawNameOf(p) = user
         => /\ TitleOf(fs[p]) = <<"U","s","e","r">>
            /\ p[Len(p) - 1] = <<"u","s","e","r">>
            /\ Len(p) = 3 => /\ fs[p].pkg = <<"u","s","e","r">>
                             /\ fs[p].route = <<"/","u","s","e","r","s">>
    /\ \A p, q \in DOMAIN fs :
         RawNameOf(p) = RawNameOf(q) => TitleOf(fs[p]) = TitleOf(fs[q])

\* the module "user" was scaffolded and a second command generated another
\* file from the raw name "user" into a different module
C8_Witness ==
    /\ moduleGo(user) \in DOMAIN fs
    /\ \E p \in DOMAIN fs : RawNameOf(p) = user /\ p[2] # user
    /\ count = 2

\* C9: each of controller, service, repository, dto and middleware is a
\* subcommand of both `generate` and `g`: invoking it runs a generator (it
\* creates the file, finds it, or reports a file system error), never the
\* parent's help text.
C9_EveryDocumentedKindRuns ==
    last.cmd \in DocumentedSingleKinds
    => last.out \in {"created", "already exists", "mkdir failed", "write failed"}

-----------------------------------------------------------------------------
(* Properties of the rewrite helpers *)

\* the lines of the rewritten text, to be compared with the words given
OutLines == Split(rout.text, NL)
ImportsDone == rin.op = "updateImports" /\ rout # <<>>
GoModDone == rin.op = "updateGoMod" /\ rout # <<>> /\ ~rout.err

\* the new identifier itself begins with `old/`
SelfPrefixed == HasPrefix(rin.new, rin.old \o Slash)

C4_TailOfLongerIdentifierUnchanged ==
    ImportsDone
    => \A i \in DOMAIN rin.words :
         ( \E pre \in { <<"x">>, <<"a","/","m","y">> } :
             rin.words[i] = pre \o rin.old \o Slash \o pkg )
         => ( Len(OutLines) = Len(rin.words) /\ OutLines[i] = rin.words[i] )

\* C5: a manifest `module <old>` followed by any further text becomes
\* `module <new>` followed by exactly that text: the first line is the new
\* declaration, every later line, the order of the lines and the final
\* newline (or its absence) are as they were.
C5_ManifestOtherLinesUnchanged ==
    ( GoModDone /\ Split(rin.gomod, NL)[1] = ModuleKw \o rin.old )
    => LET before == Split(rin.gomod, NL)
           after == Split(rout.text, NL)
       IN  /\ after[1] = ModuleKw \o rin.new
           /\ Len(after) = Len(before)
           /\ Tail(after) = Tail(before)
           /\ rout.text = ModuleKw \o rin.new
                          \o SubSeq(rin.gomod, Len(ModuleKw \o rin.old) + 1, Len(rin.gomod))

\* a manifest with a second `module ` line and a final newline was rewritten
C5_Witness ==
    /\ GoModDone
    /\ rin.gomod = ModuleKw \o rin.old \o NL \o ModuleKw \o <<"q">> \o NL
    /\ rout.text = ModuleKw \o rin.new \o NL \o ModuleKw \o <<"q">> \o NL

-----------------------------------------------------------------------------
(* Properties of the `new` command *)

Completed ==
    /\ npc = "done"
    /\ nout # <<>>
    /\ nout[Len(nout)] = "Don't forget to run 'go mod tidy'"
NoErrorPrinted ==
    /\ "Error updating go.mod" \notin { nout[i] : i \in DOMAIN nout }
    /\ "Error updating import paths" \notin { nout[i] : i \in DOMAIN nout }

\* C6: after `new` has run to completion without an error on a template
\* whose manifest declares `module <old>` and whose source files import
\* "<old>/..." paths, the manifest reads `module <new>` and every such
\* import in a source file reads "<new>/...", for every template identifier
\* and every identifier chosen at the prompt.
C6_RebrandIsConsistent ==
    \A id \in TemplateIds : \A k \in DOMAIN TemplateShapes(id) :
      ( /\ Completed
        /\ NoErrorPrinted
        /\ tmpl.gomod = TemplateManifest(id)
        /\ tmpl.files = TemplateShapes(id)[k] )
      => /\ target.gomod = TemplateManifest(modulePath)
         /\ \A i \in DOMAIN target.files :
              HasSuffix(target.files[i].name, GoSuffix)
              => target.files[i].text = TemplateShapes(modulePath)[k][i].text

\* C10: when the manifest is absent as the rewrite starts, the error is the
\* last thing the command does: no closing line is printed and the tree-wide
\* rewrite has changed no source file.
C10_MissingManifestStopsRewrite ==
    ( /\ npc = "done"
      /\ "Error updating go.mod" \in { nout[i] : i \in DOMAIN nout }
      /\ tmpl.gomod = NoFile )
    => /\ nout[Len(nout)] = "Error updating go.mod"
       /\ target.files = tmpl.files

Printed(line) == line \in { nout[i] : i \in DOMAIN nout }
LastPrinted(line) == nout # <<>> /\ nout[Len(nout)] = line

\* C11: each of the three fetch failures ends the command with nothing done
\* after it: without git nothing is cloned; after a failed clone nothing is
\* stripped, renamed, asked or rewritten; after a failed rename no module path
\* is asked for and neither the manifest nor any file of the clone is rewritten.
C11_FetchFailuresAbort ==
    /\ Printed("Error: 'git' is required")
       => /\ npc = "done"
          /\ nout = <<"Error: 'git' is required">>
          /\ staging = NoEntry
          /\ tmpl = NoEntry
          /\ target.kind # "tree"
          /\ modulePath = <<>>
    /\ Printed("Error cloning repository")
       => /\ npc = "done"
          /\ nout = <<"Error cloning repository">>
          /\ staging = NoEntry
          /\ target.kind # "tree"
          /\ modulePath = <<>>
    /\ Printed("Error renaming project directory")
       => /\ npc = "done"
          /\ LastPrinted("Error renaming project directory")
          /\ modulePath = <<>>
          /\ target.kind # "tree"
          /\ staging.kind = "tree"
          /\ staging.gomod = tmpl.gomod
          /\ staging.files = tmpl.files

\* the rename system call failed on a clone that holds references to rewrite
C11_Witness ==
    /\ npc = "done"
    /\ LastPrinted("Error renaming project directory")
    /\ target = NoEntry
    /\ staging.kind = "tree"
    /\ staging.gomod = TemplateManifest(oldModuleName)

\* C12: when an entry named <projectName> exists as the rename is reached, the
\* command ends there with the rename error: the entry is as it was, the clone
\* stays under the staging name, no module path is asked for and nothing is
\* rewritten.
C12_ExistingTargetFailsRename ==
    [][ ( npc = "rename" /\ target # NoEntry )
        => /\ npc' = "done"
           /\ nout' = Append(nout, "Error renaming project directory")
           /\ target' = target
           /\ staging' = staging
           /\ modulePath' = <<>> ]_vars

\* the command ended on the rename error with an empty directory in the way
C12_Witness ==
    /\ npc = "done"
    /\ LastPrinted("Error renaming project directory")
    /\ target = EmptyDir
    /\ staging.kind = "tree"

-----------------------------------------------------------------------------
(* Further properties of the generate commands *)

\* the five destinations of `generate module <name>`, in the order written
ModulePaths(name) ==
    << moduleGo(name), controllerPath(name, name), servicePath(name, name),
       repositoryPath(name, name), routePath(name, name) >>
ModuleStep(out) == count' = count + 1 /\ last'.cmd = "module" /\ last'.out = out

\* C13: `generate module <name>` on a module of which some of the five files
\* exist and some are missing, with no write failure, leaves every existing
\* file as it was (reported and skipped), creates exactly the missing ones and
\* ends with all five present.
C13_RerunSkipsExistingFiles ==
    [][ LET paths == ModulePaths(last'.name)
            present == { i \in 1..5 : paths[i] \in DOMAIN fs }
        IN  ( ModuleStep("created") /\ present # {} /\ present # 1..5 )
            => /\ \A i \in present : fs'[paths[i]] = fs[paths[i]]
               /\ \A i \in 1..5 : paths[i] \in DOMAIN fs'
               /\ last'.writes = 5 - Cardinality(present) ]_vars

\* the five files `generate module <name>` renders, for every module
\* identifier the manifest can give and every name
ModuleIds == { getModuleName(data) : data \in ManifestReads }
Rendered == [ moduleName \in ModuleIds, name \in Names |->
                moduleWrites(moduleName, name, Title(name)) ]

\* C14: when the k-th write of `generate module` fails, the files of the
\* writes 1..k-1 are on disk with the content rendered for them, the files of
\* the writes k..5 are as they were before the command (absent if they were
\* absent), and the command reports the write failure, not success.
C14_WriteFailureKeepsEarlierFiles ==
    [][ ModuleStep("write failed")
        => LET k == last'.writes + 1
               writes == Rendered[last'.modid, last'.name]
           IN  /\ k \in 1..5
               /\ \A i \in 1..5 :
                    IF i < k
                    THEN /\ writes[i][1] \in DOMAIN fs'
                         /\ fs'[writes[i][1]] = writes[i][2]
                    ELSE /\ writes[i][1] \in DOMAIN fs' <=> writes[i][1] \in DOMAIN fs
                         /\ writes[i][1] \in DOMAIN fs
                              => fs'[writes[i][1]] = fs[writes[i][1]] ]_vars

\* the third write failed on a module of which nothing existed: module.go and
\* the controller are there, the other three are not
C14_Witness ==
    /\ last.cmd = "module"
    /\ last.out = "write failed"
    /\ last.writes = 2
    /\ last.fresh
    /\ FilesOf(last.name) = { moduleGo(last.name), controllerPath(last.name, last.name) }

-----------------------------------------------------------------------------
(* Further properties of the rewrite and of the `new` command *)

\* C15: the two replacements of the tree-wide rewrite give, for every text and
\* every pair of identifiers, exactly what the one replacement of `old/` by
\* `new/` gives: the new identifier is substituted once for each reference,
\* also when it begins with `old/` itself.
C15_TwoPassesEqualOnePass ==
    ImportsDone
    => rout.text = ReplaceAll(Join(rin.words, NL), rin.old \o Slash, rin.new \o Slash)

\* the .go files of the renamed project that still have the text of the
\* clone although the rewrite would change it
Unrewritten ==
    { i \in DOMAIN target.files :
        /\ ~target.files[i].isDir
        /\ HasSuffix(target.files[i].name, GoSuffix)
        /\ target.files[i].text = tmpl.files[i].text
        /\ rewriteContent(tmpl.files[i].text, oldModuleName, modulePath)
             # tmpl.files[i].text }

\* C16: when the read or the write of one source file fails during the
\* tree-wide rewrite, the failure is reported and every other source file
\* that refers to the old identifier is rewritten all the same: at most the
\* one failed file is left as it was.
C16_WalkContinuesAfterFailure ==
    ( npc = "done" /\ Printed("Error updating import paths") )
    => Cardinality(Unrewritten) <= 1

\* the order of the steps of the command
StepOrder ==
    { <<"lookpath", "clone">>, <<"lookpath", "done">>, <<"clone", "strip">>,
      <<"clone", "done">>, <<"strip", "rename">>, <<"rename", "prompt">>,
      <<"rename", "done">>, <<"prompt", "gomod">>, <<"gomod", "imports">>,
      <<"imports", "done">> }

\* C17: the steps of `new` happen in the order clone, strip, rename, manifest
\* rewrite, tree-wide rewrite; whatever is under the staging name is the clone
\* as delivered, never a rewritten project; and between the rename and the
\* first rewrite the directory under the target name still carries the
\* template's manifest and files unchanged.
C17_StepsInOrder ==
    [][ /\ <<npc, npc'>> \in StepOrder
        /\ staging'.kind = "tree"
           => /\ staging'.gomod = tmpl'.gomod
              /\ staging'.files = tmpl'.files
              /\ target'.kind # "tree"
        /\ npc' \in {"prompt", "gomod"}
           => /\ staging' = NoEntry
              /\ target'.kind = "tree"
              /\ target'.gomod = tmpl'.gomod
              /\ target'.files = tmpl'.files ]_vars

\* the run stands between the rename and the rewrite: the target directory
\* declares the template's module
C17_Witness ==
    /\ npc = "gomod"
    /\ staging = NoEntry
    /\ target.kind = "tree"
    /\ target.gomod = TemplateManifest(oldModuleName)
    /\ modulePath # oldModuleName

\* C18: after the warning that the .git directory could not be removed the
\* command goes on: it ends only on a failed rename or after both rewrites,
\* and where the rename succeeded the project is under the target name, still
\* with its .git directory, and rewritten like any other.
C18_StripFailureIsAWarning ==
    Printed("Warning: could not remove .git")
    => /\ npc # "strip"
       /\ npc = "done"
          => \/ LastPrinted("Error renaming project directory")
             \/ /\ Completed
                /\ staging = NoEntry
                /\ target.kind = "tree"
                /\ target.git
                /\ ( NoErrorPrinted /\ tmpl.gomod = TemplateManifest(oldModuleName) )
                   => target.gomod = TemplateManifest(modulePath)
                /\ NoErrorPrinted => Unrewritten = {}

C18_Witness ==
    /\ Printed("Warning: could not remove .git")
    /\ Completed
    /\ NoErrorPrinted
    /\ target.git
    /\ tmpl.gomod = TemplateManifest(oldModuleName)
    /\ target.gomod = TemplateManifest(modulePath)
    /\ \E i \in DOMAIN target.files : target.files[i].text # tmpl.files[i].text

-----------------------------------------------------------------------------
(* Properties of the derived names *)

FirstLetterUpper(s) == IF s = <<>> THEN <<>> ELSE <<ToUpper(Head(s))>> \o Tail(s)

ToLower(c) ==
    IF \E i \in 1..26 : UpperLetters[i] = c
    THEN LowerLetters[CHOOSE i \in 1..26 : UpperLetters[i] = c]
    ELSE c
Lower(s) == [i \in DOMAIN s |-> ToLower(s[i])]

\* C19: the type-name form in every generated file is the raw name with its
\* first letter capitalized and every other character as typed.
C19_OnlyFirstLetterCapitalized ==
    \A p \in DOMAIN fs : TitleOf(fs[p]) = FirstLetterUpper(RawNameOf(p))

\* C20: the route group of every module wiring file is "/", the lowercase
\* form of the raw name, and one "s".
C20_RouteIsLowercasePlural ==
    \A p \in DOMAIN fs :
       Len(p) = 3 => fs[p].route = <<"/">> \o Lower(RawNameOf(p)) \o <<"s">>

-----------------------------------------------------------------------------
(* The frame of a single-component command *)

SingleStep == count' = count + 1 /\ last'.cmd \in SingleKinds
FsFailures == {"mkdir failed", "write failed"}

\* C21: a controller, service or repository command leaves every existing
\* file as it was and adds no file but its destination; with the destination
\* present it reports that and the disk is unchanged; with the destination
\* absent and no file system failure reported it adds exactly the destination;
\* a reported failure adds nothing; and when the directories of the module
\* are all there, directory creation does not fail and the set of
\* directories is unchanged.
C21_SingleCommandFrame ==
    [][ SingleStep
        => LET dest == Destination(last')
           IN  /\ IF dest \in DOMAIN fs
                  THEN /\ fs' = fs
                       /\ last'.out = "already exists"
                       /\ last'.writes = 0
                  ELSE IF last'.out \in FsFailures
                  THEN /\ fs' = fs
                       /\ last'.writes = 0
                  ELSE /\ last'.out = "created"
                       /\ last'.writes = 1
                       /\ DOMAIN fs' = DOMAIN fs \cup {dest}
                       /\ \A p \in DOMAIN fs : fs'[p] = fs[p]
               /\ moduleDirs(last'.module) \subseteq dirs
                    => /\ last'.out # "mkdir failed"
                       /\ dirs' = dirs ]_vars

\* a service was generated into a module that had been scaffolded before: the
\* directories were there, and the five files of the scaffold are beside it
C21_Witness ==
    /\ last.cmd = "service"
    /\ last.out = "created"
    /\ last.writes = 1
    /\ ~last.fresh
    /\ count = 2
    /\ moduleGo(last.module) \in DOMAIN fs
    /\ Cardinality(FilesOf(last.module)) = 6

-----------------------------------------------------------------------------
(* The closing lines of the `new` command *)

\* C22: the line that says the project was created is printed only in runs
\* in which neither rewrite reported an error; in a run in which one did, the
\* error line is the last line printed.
C22_SuccessOnlyAfterCleanRewrites ==
    /\ Printed("New GoNext project created") => NoErrorPrinted
    /\ ( npc = "done" /\ ~NoErrorPrinted )
       => \/ LastPrinted("Error updating go.mod")
          \/ LastPrinted("Error updating import paths")

-----------------------------------------------------------------------------
(* The declarations of one package directory *)

\* the directory internal/<module>/<kind> a generated component file is in
PackageDir(p) == SubSeq(p, 1, 3)

\* C23: two generated files with different paths in one package directory
\* internal/<module>/<kind> never declare the same type name.
C23_DistinctTypesPerPackage ==
    \A p, q \in DOMAIN fs :
       ( /\ p # q
         /\ Len(p) = 5
         /\ Len(q) = 5
         /\ PackageDir(p) = PackageDir(q) )
       => fs[p].typeName # fs[q].typeName

-----------------------------------------------------------------------------
(* The module identifier the generators emit *)

\* the text of the manifest up to its first newline
RECURSIVE FirstLine(_)
FirstLine(text) ==
    IF text = <<>> \/ Head(text) = "\n" THEN <<>>
    ELSE <<Head(text)>> \o FirstLine(Tail(text))

\* the manifest is missing, or its first line does not start with `module `
NoDeclaration(data) == data = ReadErr \/ ~HasPrefix(FirstLine(data), ModuleKw)

\* the identifier the manifest declares
Declared(data) ==
    TrimSpace(SubSeq(FirstLine(data), Len(ModuleKw) + 1, Len(FirstLine(data))))

ReadsManifest == {"controller", "service", "module"}

-----------------------------------------------------------------------------
(* The manifest written by `new` and read by `generate` *)

\* C25: for a manifest whose first line starts with `module ` and a new
\* identifier of one line without leading or trailing whitespace, reading the
\* module identifier from the manifest that the rewrite wrote gives exactly
\* the new identifier; for a manifest whose first line does not start with
\* `module `, the rewrite succeeds (unless the write itself fails) and the
\* manifest is as it was.
C25_ManifestRoundTrip ==
    ( rin.op = "updateGoMod" /\ rout # <<>> /\ rin.gomod # NoFile )
    => IF HasPrefix(FirstLine(rin.gomod), ModuleKw)
       THEN ( ~rout.err /\ TrimSpace(rin.new) = rin.new )
            => getModuleName(rout.text) = rin.new
       ELSE /\ rout.text = rin.gomod
            /\ ~updateGoMod(rin.gomod, rin.new, FALSE).err

\* an identifier with a blank inside was written into a manifest that has a
\* second `module ` line, and read back
C25_Witness ==
    /\ GoModDone
    /\ rin.gomod = ModuleKw \o rin.old \o NL \o ModuleKw \o <<"q">> \o NL
    /\ rin.new = <<"n"," ","m">>
    /\ getModuleName(rout.text) = <<"n"," ","m">>

-----------------------------------------------------------------------------
(* The frame of the tree-wide rewrite *)

\* the text holds the sequence sub somewhere
Contains(text, sub) ==
    \E k \in 1..(Len(text) - Len(sub) + 1) : SubSeq(text, k, k + Len(sub) - 1) = sub

EndsInDotGo(name) ==
    /\ Len(name) >= 3
    /\ SubSeq(name, Len(name) - 2, Len(name)) = <<".","g","o">>

\* C26: the walk of updateImports leaves the manifest, every directory, every
\* file whose name does not end in ".go" and every ".go" file without an
\* occurrence of `goNext/` exactly as it was, and it adds, removes and renames
\* no entry.
C26_WalkChangesOnlyGoFiles ==
    [][ ( npc = "imports" /\ npc' = "done" )
        => /\ target'.gomod = target.gomod
           /\ target'.git = target.git
           /\ Len(target'.files) = Len(target.files)
           /\ \A i \in DOMAIN target.files :
                LET e == target.files[i]
                IN  /\ target'.files[i].name = e.name
                    /\ target'.files[i].isDir = e.isDir
                    /\ ( \/ e.isDir
                         \/ ~EndsInDotGo(e.name)
                         \/ ~Contains(e.text, <<"g","o","N","e","x","t","/">>) )
                       => target'.files[i] = e ]_vars

\* the walk is over: README.md still names goNext/app, main.go was rewritten
C26_Witness ==
    /\ npc = "done"
    /\ target.kind = "tree"
    /\ Len(target.files) = 4
    /\ target.files[1].name = <<"R","E","A","D","M","E",".","m","d">>
    /\ target.files[1].text = <<"g","o","N","e","x","t","/","a","p","p">>
    /\ target.files[2].isDir
    /\ target.files[4].text # tmpl.files[4].text
    /\ target.gomod = TemplateManifest(modulePath)

====
